---- MODULE Spec2Model ----
(***************************************************************************)
(* Model of AirDataAnalyzer.py: the DataSet class.                         *)
(*                                                                         *)
(* State: DataSet._data (None, or a list of (zip, time, concentration)     *)
(* tuples) and DataSet._labels (per category an insertion-ordered dict     *)
(* label -> active flag).  Every public method is one action; what the     *)
(* call returned, printed or raised is recorded in `result`.               *)
(*                                                                         *)
(* Floats are modelled as reduced non-negative rationals [num, den]; the   *)
(* concentration field of a row is a sequence of characters that float()   *)
(* parses.                                                                 *)
(***************************************************************************)
EXTENDS Integers, Sequences, FiniteSets, TLC

VARIABLES data, labels, result, everLoaded, preInactive, toggleRun, badRow

vars == <<data, labels, result, everLoaded, preInactive, toggleRun, badRow>>

(* ---------------------------------------------------------------------- *)
(* Bounds and input alphabets                                              *)
(* ---------------------------------------------------------------------- *)

\* largest number of data rows (after the header row) in an input file
MaxRows == 2

ZIP_CODE == 0
TIME_OF_DAY == 1
Categories == <<ZIP_CODE, TIME_OF_DAY>>

MIN == 0
AVG == 1
MAX == 2
Stats == {MIN, AVG, MAX}

\* label strings passed as arguments to the methods, per category
ZipArgs == {"10001", "10002"}

TimeArgs == {"Morning", "Evening"}

ArgLabels(category) == IF category = ZIP_CODE THEN ZipArgs ELSE TimeArgs

Digits == <<"0", "1", "2", "3", "4", "5", "6", "7", "8", "9">>

CsvRow(zip, time, conc) == <<"sensor", zip, "lat", "lon", time, conc>>

\* the data rows input files are made of: four well-formed rows, one row
\* with a non-numeric concentration, one row with only five fields
SampleRows ==
    { CsvRow("10001", "Morning", <<"5">>),
      CsvRow("10001", "Morning", <<"7", ".", "0">>),
      CsvRow("10002", "Evening", <<"3">>),
      CsvRow("10001", "Evening", <<"7">>),
      CsvRow("10002", "Evening", <<"n", "/", "a">>),
      <<"sensor", "10002", "lat", "lon", "Morning">> }

HeaderRow == <<"id", "zip", "lat", "lon", "time", "pm25">>

\* an input file: missing, or a sequence of rows (possibly none at all,
\* otherwise a header row followed by at most MaxRows data rows)
Files ==
    { [exists |-> FALSE, rows |-> <<>>], [exists |-> TRUE, rows |-> <<>>] }
    \cup { [exists |-> TRUE, rows |-> <<HeaderRow>> \o body] :
             body \in UNION { [1..n -> SampleRows] : n \in 0..MaxRows } }

(* ---------------------------------------------------------------------- *)
(* Floats as rationals                                                     *)
(* ---------------------------------------------------------------------- *)

RECURSIVE GCD(_, _)
GCD(a, b) == IF b = 0 THEN a ELSE GCD(b, a % b)

Rat(n, d) == LET g == GCD(n, d) IN [num |-> n \div g, den |-> d \div g]

RatAdd(p, q) == Rat(p.num * q.den + q.num * p.den, p.den * q.den)

RatLess(p, q) == p.num * q.den < q.num * p.den

RatDivInt(p, n) == Rat(p.num, p.den * n)

RECURSIVE Pow10(_)
Pow10(k) == IF k = 0 THEN 1 ELSE 10 * Pow10(k - 1)

IsDigit(ch) == \E i \in 1..10 : Digits[i] = ch

DigitValue(ch) == (CHOOSE i \in 1..10 : Digits[i] = ch) - 1

RECURSIVE DigitsValue(_)
DigitsValue(s) ==
    IF Len(s) = 0 THEN 0
    ELSE 10 * DigitsValue(SubSeq(s, 1, Len(s) - 1)) + DigitValue(s[Len(s)])

\* float(text) for text over digits, "." and other characters: digits with
\* at most one "." and at least one digit parse, anything else is ValueError
ParseFloat(text) ==
    LET dots == { i \in 1..Len(text) : text[i] = "." }
        digs == { i \in 1..Len(text) : IsDigit(text[i]) }
        good == /\ Cardinality(dots) <= 1
                /\ Cardinality(digs) >= 1
                /\ Cardinality(dots) + Cardinality(digs) = Len(text)
        point == IF dots = {} THEN Len(text) + 1 ELSE CHOOSE i \in dots : TRUE
        whole == SubSeq(text, 1, point - 1)
        frac == SubSeq(text, point + 1, Len(text))
    IN  IF good
        THEN [ok |-> TRUE,
              value |-> Rat(DigitsValue(whole \o frac), Pow10(Len(frac)))]
        ELSE [ok |-> FALSE, value |-> Rat(0, 1)]

\* format(x, ".2f") for x >= 0, as a number of hundredths: the nearest
\* hundredth, an exact tie going to the even one
Format2(x) ==
    LET n == 100 * x.num
        q == n \div x.den
        r == n % x.den
    IN  IF 2 * r > x.den \/ (2 * r = x.den /\ q % 2 = 1) THEN q + 1 ELSE q

(* ---------------------------------------------------------------------- *)
(* Python dict as an insertion-ordered sequence of [key, value]            *)
(* ---------------------------------------------------------------------- *)

DictHas(d, k) == \E i \in 1..Len(d) : d[i].key = k

DictGet(d, k) == d[CHOOSE i \in 1..Len(d) : d[i].key = k].value

\* d[k] = v: an existing key keeps its position, a new key goes last
DictSet(d, k, v) ==
    IF DictHas(d, k)
    THEN [i \in 1..Len(d) |-> IF d[i].key = k THEN [key |-> k, value |-> v] ELSE d[i]]
    ELSE Append(d, [key |-> k, value |-> v])

RECURSIVE SelectKeys(_, _)
SelectKeys(d, onlyTrue) ==
    IF Len(d) = 0 THEN <<>>
    ELSE LET rest == SelectKeys(SubSeq(d, 1, Len(d) - 1), onlyTrue)
             last == d[Len(d)]
         IN  IF onlyTrue /\ ~last.value THEN rest ELSE Append(rest, last.key)

\* `not self._data`: None and the empty list are both falsy
NotData(d) == d.none \/ Len(d.items) = 0

(* ---------------------------------------------------------------------- *)
(* DataSet methods as functions of (self._data, self._labels)              *)
(* Each returns the new _data and _labels, the outcome ("ok" or the name   *)
(* of the exception raised) and the value returned or printed.             *)
(* ---------------------------------------------------------------------- *)

NoValue == <<>>

Return(d, lab, v) == [data |-> d, labels |-> lab, outcome |-> "ok", value |-> v]

Raise(d, lab, e) == [data |-> d, labels |-> lab, outcome |-> e, value |-> NoValue]

\* variant: one entry per item, repeated labels included
LabelDict_append(items, category) ==
    [i \in 1..Len(items) |-> [key |-> items[i][category + 1], value |-> TRUE]]

\* {i[category.value]: True for i in self._data}
RECURSIVE LabelDict(_, _)
LabelDict(items, category) ==
    IF Len(items) = 0 THEN <<>>
    ELSE DictSet(LabelDict(SubSeq(items, 1, Len(items) - 1), category),
                 items[Len(items)][category + 1], TRUE)

\* variant: a label already registered keeps its flag
initialize_labels_merge(d, lab) ==
    IF NotData(d) THEN Raise(d, lab, "EmptyDatasetError")
    ELSE Return(d,
           [c \in {ZIP_CODE, TIME_OF_DAY} |->
              LET fresh == LabelDict(d.items, c)
              IN  [i \in 1..Len(fresh) |->
                     IF DictHas(lab[c], fresh[i].key)
                     THEN [key |-> fresh[i].key, value |-> DictGet(lab[c], fresh[i].key)]
                     ELSE fresh[i]]],
           NoValue)

initialize_labels(d, lab) ==
    IF NotData(d) THEN Raise(d, lab, "EmptyDatasetError")
    ELSE Return(d, [c \in {ZIP_CODE, TIME_OF_DAY} |-> LabelDict(d.items, c)], NoValue)

\* (row[1], row[4], float(row[5])) for one row
ParseRow(row) ==
    IF Len(row) < 6 THEN [outcome |-> "IndexError", item |-> <<>>]
    ELSE LET f == ParseFloat(row[6])
         IN  IF f.ok THEN [outcome |-> "ok", item |-> <<row[2], row[5], f.value>>]
             ELSE [outcome |-> "ValueError", item |-> <<>>]

\* the list comprehension over the csv reader: the items of all rows, or
\* the exception of the first row that cannot be converted
RECURSIVE ParseRows(_)
ParseRows(rows) ==
    IF Len(rows) = 0 THEN [outcome |-> "ok", items |-> <<>>]
    ELSE LET first == ParseRow(Head(rows))
         IN  IF first.outcome # "ok" THEN [outcome |-> first.outcome, items |-> <<>>]
             ELSE LET rest == ParseRows(Tail(rows))
                  IN  IF rest.outcome # "ok" THEN rest
                      ELSE [outcome |-> "ok", items |-> <<first.item>> \o rest.items]

\* the items of the rows before the first row that cannot be converted
RECURSIVE ParsePrefix(_)
ParsePrefix(rows) ==
    IF Len(rows) = 0 \/ ParseRow(Head(rows)).outcome # "ok" THEN <<>>
    ELSE <<ParseRow(Head(rows)).item>> \o ParsePrefix(Tail(rows))

\* variant: items are appended to self._data row by row
load_file_partial(d, lab, file) ==
    IF ~file.exists THEN Raise(d, lab, "FileNotFoundError")
    ELSE IF Len(file.rows) = 0 THEN Raise(d, lab, "StopIteration")
    ELSE LET parsed == ParseRows(Tail(file.rows))
             newData == [none |-> FALSE, items |-> ParsePrefix(Tail(file.rows))]
         IN  IF parsed.outcome # "ok" THEN Raise(newData, lab, parsed.outcome)
             ELSE LET init == initialize_labels(newData, lab)
                  IN  IF init.outcome # "ok" THEN Raise(newData, lab, init.outcome)
                      ELSE Return(newData, init.labels, Len(parsed.items))

load_file(d, lab, file) ==
    IF ~file.exists THEN Raise(d, lab, "FileNotFoundError")
    ELSE IF Len(file.rows) = 0 THEN Raise(d, lab, "StopIteration")
    ELSE LET parsed == ParseRows(Tail(file.rows))
         IN  IF parsed.outcome # "ok" THEN Raise(d, lab, parsed.outcome)
             ELSE LET newData == [none |-> FALSE, items |-> parsed.items]
                      init == initialize_labels(newData, lab)
                  IN  IF init.outcome # "ok" THEN Raise(newData, lab, init.outcome)
                      ELSE Return(newData, init.labels, Len(parsed.items))

\* variant: no check that data is loaded
get_labels_unchecked(d, lab, category) ==
    Return(d, lab, SelectKeys(lab[category], FALSE))

get_labels(d, lab, category) ==
    IF NotData(d) THEN Raise(d, lab, "EmptyDatasetError")
    ELSE Return(d, lab, SelectKeys(lab[category], FALSE))

get_active_labels(d, lab, category) ==
    IF NotData(d) THEN Raise(d, lab, "EmptyDatasetError")
    ELSE Return(d, lab, SelectKeys(lab[category], TRUE))

\* variant: the flag is cleared instead of flipped
toggle_active_label_off(d, lab, category, descriptor) ==
    IF NotData(d) THEN Raise(d, lab, "EmptyDatasetError")
    ELSE IF ~DictHas(lab[category], descriptor) THEN Raise(d, lab, "KeyError")
    ELSE Return(d, [lab EXCEPT ![category] = DictSet(@, descriptor, FALSE)], NoValue)

toggle_active_label(d, lab, category, descriptor) ==
    IF NotData(d) THEN Raise(d, lab, "EmptyDatasetError")
    ELSE IF ~DictHas(lab[category], descriptor) THEN Raise(d, lab, "KeyError")
    ELSE Return(d,
                [lab EXCEPT ![category] =
                    DictSet(@, descriptor, ~DictGet(@, descriptor))],
                NoValue)

InSeq(x, s) == \E i \in 1..Len(s) : s[i] = x

\* [item[2] for item in items]
Concentrations(items) == [i \in 1..Len(items) |-> items[i][3]]

RECURSIVE Sum(_)
Sum(list) ==
    IF Len(list) = 0 THEN Rat(0, 1)
    ELSE RatAdd(Sum(SubSeq(list, 1, Len(list) - 1)), list[Len(list)])

RECURSIVE Min(_)
Min(list) ==
    IF Len(list) = 1 THEN list[1]
    ELSE LET m == Min(SubSeq(list, 1, Len(list) - 1))
         IN  IF RatLess(list[Len(list)], m) THEN list[Len(list)] ELSE m

RECURSIVE Max(_)
Max(list) ==
    IF Len(list) = 1 THEN list[1]
    ELSE LET m == Max(SubSeq(list, 1, Len(list) - 1))
         IN  IF RatLess(m, list[Len(list)]) THEN list[Len(list)] ELSE m

\* (min, sum / len, max) of a non-empty list
Summary(list) == <<Min(list), RatDivInt(Sum(list), Len(list)), Max(list)>>

\* variant: only items whose two labels are active are considered
cross_table_statistics_active(d, lab, descriptor_one, descriptor_two) ==
    IF NotData(d) THEN Raise(d, lab, "EmptyDatasetError")
    ELSE LET concentration_list ==
                 Concentrations(SelectSeq(d.items,
                     LAMBDA item : /\ item[1] = descriptor_one /\ item[2] = descriptor_two
                                   /\ InSeq(item[1], SelectKeys(lab[ZIP_CODE], TRUE))
                                   /\ InSeq(item[2], SelectKeys(lab[TIME_OF_DAY], TRUE))))
         IN  IF Len(concentration_list) = 0 THEN Raise(d, lab, "NoMatchingItems")
             ELSE Return(d, lab, Summary(concentration_list))

cross_table_statistics(d, lab, descriptor_one, descriptor_two) ==
    IF NotData(d) THEN Raise(d, lab, "EmptyDatasetError")
    ELSE LET concentration_list ==
                 Concentrations(SelectSeq(d.items,
                     LAMBDA item : item[1] = descriptor_one /\ item[2] = descriptor_two))
         IN  IF Len(concentration_list) = 0 THEN Raise(d, lab, "NoMatchingItems")
             ELSE Return(d, lab, Summary(concentration_list))

\* variant: the other category's labels are not filtered by their flag
table_statistics_unfiltered(d, lab, row_category, label) ==
    LET alternate_category == IF row_category = 0 THEN TIME_OF_DAY ELSE ZIP_CODE
        active == get_labels(d, lab, alternate_category)
    IN  IF active.outcome # "ok" THEN active
        ELSE LET concentration_list ==
                     Concentrations(SelectSeq(d.items,
                         LAMBDA item : /\ item[row_category + 1] = label
                                       /\ InSeq(item[alternate_category + 1], active.value)))
             IN  IF Len(concentration_list) = 0 THEN Raise(d, lab, "NoMatchingItems")
                 ELSE Return(d, lab, Summary(concentration_list))

table_statistics(d, lab, row_category, label) ==
    LET alternate_category == IF row_category = 0 THEN TIME_OF_DAY ELSE ZIP_CODE
        active == get_active_labels(d, lab, alternate_category)
    IN  IF active.outcome # "ok" THEN active
        ELSE IF NotData(d) THEN Raise(d, lab, "EmptyDatasetError")
        ELSE LET concentration_list ==
                     Concentrations(SelectSeq(d.items,
                         LAMBDA item : /\ item[row_category + 1] = label
                                       /\ InSeq(item[alternate_category + 1], active.value)))
             IN  IF Len(concentration_list) = 0 THEN Raise(d, lab, "NoMatchingItems")
                 ELSE Return(d, lab, Summary(concentration_list))

(* ---------------------------------------------------------------------- *)
(* Rendering.  A printed cell is "N/A" or a number of hundredths.          *)
(* ---------------------------------------------------------------------- *)

NACell == [text |-> "N/A", hundredths |-> 0]

NumCell(x) == [text |-> "number", hundredths |-> Format2(x)]

\* outcome of the first call, in call order, whose exception is not caught
FirstUncaught(calls, caught) ==
    LET bad == { n \in 1..Len(calls) : calls[n].outcome \notin ({"ok"} \cup caught) }
    IN  IF bad = {} THEN "ok"
        ELSE calls[CHOOSE n \in bad : \A m \in bad : n <= m].outcome

\* the body of display_cross_table with the exceptions its try catches
RenderCrossTable(d, lab, stat, caught) ==
    IF NotData(d) THEN Raise(d, lab, "EmptyDatasetError")
    ELSE LET times == get_active_labels(d, lab, TIME_OF_DAY).value
             zips == get_active_labels(d, lab, ZIP_CODE).value
             nc == Len(times)
             calls == [n \in 1..(Len(zips) * nc) |->
                         cross_table_statistics(d, lab, zips[((n - 1) \div nc) + 1],
                                                times[((n - 1) % nc) + 1])]
             cell(r) == IF r.outcome = "ok" THEN NumCell(r.value[stat + 1]) ELSE NACell
             raised == FirstUncaught(calls, caught)
         IN  IF raised # "ok" THEN Raise(d, lab, raised)
             ELSE Return(d, lab,
                    [columns |-> times,
                     rows |-> [j \in 1..Len(zips) |->
                                [label |-> zips[j],
                                 cells |-> [k \in 1..nc |-> cell(calls[(j - 1) * nc + k])]]]])

\* variant: the call of _cross_table_statistics is not inside a try
display_cross_table_nocatch(d, lab, stat) == RenderCrossTable(d, lab, stat, {})

display_cross_table(d, lab, stat) == RenderCrossTable(d, lab, stat, {"NoMatchingItems"})

\* the body of display_field_table with the exceptions its try catches
RenderFieldTable(d, lab, rows, caught) ==
    IF NotData(d) THEN Raise(d, lab, "EmptyDatasetError")
    ELSE LET other_category == IF rows = 0 THEN TIME_OF_DAY ELSE ZIP_CODE
             criteria == get_active_labels(d, lab, other_category).value
             items == get_active_labels(d, lab, rows).value
             calls == [n \in 1..Len(items) |-> table_statistics(d, lab, rows, items[n])]
             cells(r) == IF r.outcome = "ok"
                         THEN [s \in 1..3 |-> NumCell(r.value[s])]
                         ELSE [s \in 1..3 |-> NACell]
             raised == FirstUncaught(calls, caught)
         IN  IF raised # "ok" THEN Raise(d, lab, raised)
             ELSE Return(d, lab,
                    [criteria |-> criteria,
                     rows |-> [n \in 1..Len(items) |->
                                [label |-> items[n], cells |-> cells(calls[n])]]])

display_field_table(d, lab, rows) == RenderFieldTable(d, lab, rows, {"NoMatchingItems"})

(* ---------------------------------------------------------------------- *)
(* The state machine                                                       *)
(* ---------------------------------------------------------------------- *)

AnyInactive(lab) ==
    \E c \in {ZIP_CODE, TIME_OF_DAY} : \E i \in 1..Len(lab[c]) : ~lab[c][i].value

NoData == [none |-> TRUE, items |-> <<>>]

NoLabels == [c \in {ZIP_CODE, TIME_OF_DAY} |-> <<>>]

NoRun == [n |-> 0, data |-> NoData, labels |-> NoLabels]

\* DataSet.__init__
Init ==
    /\ data = NoData
    /\ labels = NoLabels
    /\ result = [op |-> "__init__", args |-> <<>>, outcome |-> "ok", value |-> NoValue]
    /\ everLoaded = FALSE
    /\ preInactive = FALSE
    /\ toggleRun = NoRun
    /\ badRow = FALSE

\* some data row of the file has fewer than 6 fields or a concentration
\* that is not a number
HasBadRow(file) ==
    /\ file.exists
    /\ \E i \in 2..Len(file.rows) :
          Len(file.rows[i]) < 6 \/ ~ParseFloat(file.rows[i][6]).ok

\* the input files having such a row
BadFiles == { f \in Files : HasBadRow(f) }

\* one call of a method: commit its effect, record what it returned or raised
Call(op, args, r) ==
    /\ data' = r.data
    /\ labels' = r.labels
    /\ result' = [op |-> op, args |-> args, outcome |-> r.outcome, value |-> r.value]
    /\ everLoaded' = (everLoaded \/ (op = "load_file" /\ r.outcome = "ok"))
    /\ preInactive' = AnyInactive(labels)

Load ==
    \E file \in Files :
        /\ Call("load_file", <<>>, load_file(data, labels, file))
        /\ toggleRun' = NoRun
        /\ badRow' = (file \in BadFiles)

GetLabels ==
    \E c \in {ZIP_CODE, TIME_OF_DAY} :
        /\ Call("get_labels", <<c>>, get_labels(data, labels, c))
        /\ toggleRun' = NoRun
        /\ badRow' = FALSE

GetActiveLabels ==
    \E c \in {ZIP_CODE, TIME_OF_DAY} :
        /\ Call("get_active_labels", <<c>>, get_active_labels(data, labels, c))
        /\ toggleRun' = NoRun
        /\ badRow' = FALSE

\* toggleRun remembers the state before the first of two identical
\* successful toggle calls made one right after the other
ToggleActiveLabel ==
    \E c \in {ZIP_CODE, TIME_OF_DAY} : \E l \in ArgLabels(c) :
        LET r == toggle_active_label(data, labels, c, l)
            second == /\ toggleRun.n = 1
                      /\ result.op = "toggle_active_label"
                      /\ result.args = <<c, l>>
        IN  /\ Call("toggle_active_label", <<c, l>>, r)
            /\ toggleRun' = IF r.outcome # "ok" THEN NoRun
                            ELSE IF second THEN [toggleRun EXCEPT !.n = 2]
                            ELSE [n |-> 1, data |-> data, labels |-> labels]
            /\ badRow' = FALSE

CrossTableStatistics ==
    \E z \in ZipArgs, t \in TimeArgs :
        /\ Call("cross_table_statistics", <<z, t>>,
                cross_table_statistics(data, labels, z, t))
        /\ toggleRun' = NoRun
        /\ badRow' = FALSE

DisplayCrossTable ==
    \E s \in Stats :
        /\ Call("display_cross_table", <<s>>, display_cross_table(data, labels, s))
        /\ toggleRun' = NoRun
        /\ badRow' = FALSE

TableStatistics ==
    \E c \in {ZIP_CODE, TIME_OF_DAY} : \E l \in ArgLabels(c) :
        /\ Call("table_statistics", <<c, l>>, table_statistics(data, labels, c, l))
        /\ toggleRun' = NoRun
        /\ badRow' = FALSE

DisplayFieldTable ==
    \E c \in {ZIP_CODE, TIME_OF_DAY} :
        /\ Call("display_field_table", <<c>>, display_field_table(data, labels, c))
        /\ toggleRun' = NoRun
        /\ badRow' = FALSE

Next ==
    \/ Load
    \/ GetLabels
    \/ GetActiveLabels
    \/ ToggleActiveLabel
    \/ CrossTableStatistics
    \/ DisplayCrossTable
    \/ TableStatistics
    \/ DisplayFieldTable

Spec == Init /\ [][Next]_vars

(* ---------------------------------------------------------------------- *)
(* Reference definitions for the properties, stated over the records held  *)
(* and not through the methods                                             *)
(* ---------------------------------------------------------------------- *)

Loaded == ~data.none /\ Len(data.items) > 0

QueryOps ==
    { "get_labels", "get_active_labels", "toggle_active_label",
      "cross_table_statistics", "display_cross_table", "table_statistics",
      "display_field_table" }

Other(c) == IF c = ZIP_CODE THEN TIME_OF_DAY ELSE ZIP_CODE

Range(seq) == { seq[i] : i \in 1..Len(seq) }

NoDuplicates(seq) == \A i, j \in 1..Len(seq) : seq[i] = seq[j] => i = j

\* distinct values of a category's field across the records held
FieldValues(c) == { data.items[i][c + 1] : i \in 1..Len(data.items) }

Keys(c) == { labels[c][i].key : i \in 1..Len(labels[c]) }

ActiveKeys(c) == { labels[c][i].key : i \in { n \in 1..Len(labels[c]) : labels[c][n].value } }

InactiveKeys(c) == Keys(c) \ ActiveKeys(c)

\* indices of the records of a (zip, time) pair
CrossMatch(z, t) ==
    { i \in 1..Len(data.items) : data.items[i][1] = z /\ data.items[i][2] = t }

\* indices of the records of a label whose other field is an active label
TableMatch(c, l) ==
    { i \in 1..Len(data.items) :
        data.items[i][c + 1] = l /\ data.items[i][Other(c) + 1] \in ActiveKeys(Other(c)) }

RECURSIVE Total(_)
Total(S) ==
    IF S = {} THEN Rat(0, 1)
    ELSE LET i == CHOOSE n \in S : TRUE
         IN  RatAdd(data.items[i][3], Total(S \ {i}))

Least(S) ==
    CHOOSE v \in { data.items[i][3] : i \in S } :
        \A i \in S : ~RatLess(data.items[i][3], v)

Greatest(S) ==
    CHOOSE v \in { data.items[i][3] : i \in S } :
        \A i \in S : ~RatLess(v, data.items[i][3])

Mean(S) == Rat(Total(S).num, Total(S).den * Cardinality(S))

Triple(S) == <<Least(S), Mean(S), Greatest(S)>>

\* what a query must answer for the set S of records it is about
AnswersFor(S) ==
    IF S = {} THEN result.outcome = "NoMatchingItems"
    ELSE result.outcome = "ok" /\ result.value = Triple(S)

ExpectedCell(S, stat) ==
    IF S = {} THEN NACell
    ELSE [text |-> "number", hundredths |-> Format2(Triple(S)[stat + 1])]

(* ---------------------------------------------------------------------- *)
(* Properties                                                              *)
(* ---------------------------------------------------------------------- *)

\* C1: while no load has succeeded, every call of get_labels,
\* get_active_labels, toggle_active_label, cross_table_statistics,
\* display_cross_table, table_statistics and display_field_table raises
\* EmptyDatasetError and nothing else.
C1_QueriesBeforeLoadRaiseEmpty ==
    (~everLoaded /\ result.op \in QueryOps) => result.outcome = "EmptyDatasetError"

\* a query answered after a load of a file with a header and no data rows,
\* the only load attempted so far
C1_Witness ==
    /\ ~everLoaded
    /\ ~data.none
    /\ result.op = "table_statistics"
    /\ result.outcome = "EmptyDatasetError"

\* C2: right after a successful load every label of both registries is
\* active: get_active_labels(category) equals get_labels(category).
C2_AllActiveAfterLoad ==
    (result.op = "load_file" /\ result.outcome = "ok") =>
        \A c \in {ZIP_CODE, TIME_OF_DAY} :
            /\ get_labels(data, labels, c).outcome = "ok"
            /\ get_active_labels(data, labels, c).outcome = "ok"
            /\ get_active_labels(data, labels, c).value = get_labels(data, labels, c).value
            /\ InactiveKeys(c) = {}

\* a successful reload made while some label was deactivated
C2_Witness ==
    /\ result.op = "load_file"
    /\ result.outcome = "ok"
    /\ preInactive
    /\ Len(labels[ZIP_CODE]) = 2

\* C3: whenever get_labels(category) returns, its result has no duplicates
\* and its elements are the distinct values of that field across the records
\* held, whatever the active flags are.
C3_LabelsAreDistinctFieldValues ==
    (result.op = "get_labels" /\ result.outcome = "ok") =>
        /\ NoDuplicates(result.value)
        /\ Range(result.value) = FieldValues(result.args[1])

\* get_labels answered with a repeated zip code in the records and a
\* deactivated label in the registry asked for
C3_Witness ==
    /\ result.op = "get_labels"
    /\ result.outcome = "ok"
    /\ result.args[1] = ZIP_CODE
    /\ Len(data.items) > Len(result.value)
    /\ InactiveKeys(ZIP_CODE) # {}

\* C4: two successive calls toggle_active_label(category, label) on a
\* registered label leave the records and both registries as they were
\* before the first call.
C4_ToggleTwiceRestores ==
    toggleRun.n = 2 => (labels = toggleRun.labels /\ data = toggleRun.data)

\* the second of two identical toggles, with another label deactivated
C4_Witness ==
    /\ toggleRun.n = 2
    /\ result.op = "toggle_active_label"
    /\ result.outcome = "ok"
    /\ AnyInactive(labels)
    /\ \E i \in 1..Len(labels[result.args[1]]) :
          labels[result.args[1]][i].key = result.args[2] /\ labels[result.args[1]][i].value

\* C5: on a loaded DataSet cross_table_statistics(zip, time) is about exactly
\* the records with that zip and that time, whatever the active flags: it
\* raises NoMatchingItems iff there is none, and otherwise returns their
\* minimum, their sum divided by their count, and their maximum.
C5_CrossTableStatistics ==
    (result.op = "cross_table_statistics" /\ Loaded) =>
        AnswersFor(CrossMatch(result.args[1], result.args[2]))

\* statistics of two records with different concentrations whose zip and
\* time labels are both deactivated
C5_Witness ==
    /\ result.op = "cross_table_statistics"
    /\ result.outcome = "ok"
    /\ result.args[1] \in InactiveKeys(ZIP_CODE)
    /\ result.args[2] \in InactiveKeys(TIME_OF_DAY)
    /\ RatLess(result.value[1], result.value[2])
    /\ RatLess(result.value[2], result.value[3])

\* C6: on a loaded DataSet table_statistics(row_category, label) is about
\* exactly the records whose row_category field is label and whose other
\* field is an active label of the other registry; the flag of label itself
\* does not matter; it raises NoMatchingItems iff no record passes.
C6_TableStatistics ==
    (result.op = "table_statistics" /\ Loaded) =>
        AnswersFor(TableMatch(result.args[1], result.args[2]))

\* statistics of a deactivated label from which a record is left out
\* because its label on the other axis is deactivated
C6_Witness ==
    /\ result.op = "table_statistics"
    /\ result.outcome = "ok"
    /\ result.args[2] \in InactiveKeys(result.args[1])
    /\ \E i \in 1..Len(data.items) :
          /\ data.items[i][result.args[1] + 1] = result.args[2]
          /\ i \notin TableMatch(result.args[1], result.args[2])

\* C7: on a loaded DataSet display_cross_table(stat) does not raise
\* NoMatchingItems; it prints one row per active zip label and one column per
\* active time label, in registry order, and a cell is "N/A" exactly when no
\* record has that zip and time, otherwise the requested statistic of those
\* records to two decimals.
C7_DisplayCrossTable ==
    (result.op = "display_cross_table" /\ Loaded) =>
        /\ result.outcome = "ok"
        /\ result.value.columns = SelectKeys(labels[TIME_OF_DAY], TRUE)
        /\ [j \in 1..Len(result.value.rows) |-> result.value.rows[j].label]
             = SelectKeys(labels[ZIP_CODE], TRUE)
        /\ \A j \in 1..Len(result.value.rows) :
             /\ Len(result.value.rows[j].cells) = Len(result.value.columns)
             /\ \A k \in 1..Len(result.value.columns) :
                  LET S == CrossMatch(result.value.rows[j].label, result.value.columns[k])
                      shown == result.value.rows[j].cells[k]
                  IN  /\ shown = ExpectedCell(S, result.args[1])
                      /\ (shown.text = "N/A") = (S = {})

\* a table with a deactivated label left out, holding both a number whose
\* average differs from the minimum and an "N/A" cell
C7_Witness ==
    /\ result.op = "display_cross_table"
    /\ result.outcome = "ok"
    /\ result.args[1] = AVG
    /\ AnyInactive(labels)
    /\ \E j \in 1..Len(result.value.rows) :
         \E k \in 1..Len(result.value.columns) :
            result.value.rows[j].cells[k].text = "N/A"
    /\ \E j \in 1..Len(result.value.rows) :
         \E k \in 1..Len(result.value.columns) :
            result.value.rows[j].cells[k].text = "number"

\* C8: once a load has succeeded, no later operation, further loads of any
\* file included, makes the queries raise EmptyDatasetError again.
C8_NeverEmptyAgain ==
    everLoaded => get_labels(data, labels, ZIP_CODE).outcome # "EmptyDatasetError"

\* C9: a load that fails on a malformed data row (fewer than 6 fields, or a
\* concentration that is not a number) raises the error of that row and
\* leaves the records, the registries' keys and every flag as they were.
C9_ParseFailureCommitsNothing ==
    [][(result'.op = "load_file" /\ badRow') =>
          /\ result'.outcome \in {"IndexError", "ValueError"}
          /\ data' = data
          /\ labels' = labels]_vars

\* a load failed on a malformed row with records held and a label
\* deactivated
C9_Witness ==
    /\ result.op = "load_file"
    /\ badRow
    /\ result.outcome = "ValueError"
    /\ Loaded
    /\ AnyInactive(labels)

\* C10: in every state the keys of each category's registry are the
\* distinct values of that category's field across the records held.
C10_KeysAreFieldValues ==
    \A c \in {ZIP_CODE, TIME_OF_DAY} : Keys(c) = FieldValues(c)

====
